---- MODULE Spec2Model ----
(***************************************************************************)
(* Model of the SQLAlchemy profiler interface of the ingestion framework:  *)
(* SQAProfilerInterface.get_all_metrics submits one task per work unit to  *)
(* a thread pool, every task runs compute_metrics_in_thread, and the       *)
(* caller thread aggregates the rows the futures return.                   *)
(***************************************************************************)
EXTENDS Integers, Sequences, FiniteSets, TLC

\* ------------------------------------------------------------------ bounds
MaxUnits == 2
MaxWorkers == 2
NumColumns == 2
MaxRows == 2

\* ------------------------------------------------------- program constants
\* Snowflake error numbers registered as numeric overflow.
OVERFLOW_ERROR_CODES == [d \in {"snowflake"} |-> {100046, 100058}]

\* Dialects the connection may speak: one with registered overflow codes,
\* one without an entry in OVERFLOW_ERROR_CODES.
Dialects == {"snowflake", "postgres"}

Threads == 1..MaxWorkers
Columns == 1..NumColumns
\* `column is None` for Table and System units.
NoColumn == 0
\* The session the interface opens for the caller thread in __init__.
MainSession == 0
TableName == "table"

MetricTypes == {"Table", "Static", "Query", "Window", "System"}

\* Metric names a unit of each type computes.
MetricsOf(mtype) ==
  CASE mtype = "Table"  -> {"rowCount"}
    [] mtype = "Static" -> {"sum", "mean", "min"}
    [] mtype = "Query"  -> {"histogram"}
    [] mtype = "Window" -> {"median"}
    [] mtype = "System" -> {"systemProfile"}

\* The work units get_all_metrics can be given: (metrics, metric_type,
\* column, table); Table and System units have no column.
WorkUnits ==
  [mtype : {"Table", "System"}, column : {NoColumn}]
  \cup [mtype : {"Static", "Query", "Window"}, column : Columns]

UnitLists == UNION {[1..n -> WorkUnits] : n \in 1..MaxUnits}

\* ------------------------------------------------------------ dict helpers
\* dict.update(other)
Update(d, other) ==
  [k \in DOMAIN d \cup DOMAIN other |->
     IF k \in DOMAIN other THEN other[k] ELSE d[k]]

EmptyDict == [k \in {} |-> 0]

\* Values stored in the result maps.
MetricVal(u) == [kind |-> "metric", v |-> u]
NameVal(c) == [kind |-> "name", v |-> c]
TimeVal(n) == [kind |-> "timestamp", v |-> n]

\* dict(row) of the statement a unit ran for the given metrics.
RowOf(u, metrics) == [k \in metrics |-> MetricVal(u)]

\* The value of a dict-typed Query metric: {column: [values]}.
DictVal(u, data) == [kind |-> "dict", v |-> u, data |-> data]


\* ------------------------------------------------------ statement outcomes
\* What the database answers to the statement a handler issues: a row, a
\* falsy row / no query, a generic exception, or a ProgrammingError that
\* carries an overflow errno, another errno, or no `orig`.
OutcomesOf(mtype) ==
  CASE mtype = "Table"  -> {"ok", "empty", "error"}
    [] mtype = "Static" -> {"ok", "error", "overflow", "prog_other", "prog_noorig"}
    [] mtype = "Query"  -> {"ok", "empty", "error", "dict_rows", "dict_empty"}
    [] mtype = "Window" -> {"ok", "empty", "error", "overflow", "prog_other", "prog_noorig"}
    [] mtype = "System" -> {"ok", "error"}

IsProgrammingError(o) == o \in {"overflow", "prog_other", "prog_noorig"}
HasOrig(o) == o \in {"overflow", "prog_other"}
Errno(o) == IF o = "overflow" THEN 100046 ELSE 1064

\* What a handler hands back to compute_metrics_in_thread: the row it
\* returned (empty set = None), the exception that left it, and whether it
\* called session.rollback().
Returned(rowOpt) == [row |-> rowOpt, exc |-> "none", rollback |-> FALSE]
Escaped(e) == [row |-> {}, exc |-> e, rollback |-> FALSE]

\* handle_query_exception: session.rollback(), then raise RuntimeError.
handle_query_exception == [row |-> {}, exc |-> "RuntimeError", rollback |-> TRUE]

\* `exc.orig and exc.orig.errno in OVERFLOW_ERROR_CODES.get(dialect)`:
\* .get returns None for a dialect without an entry and `in None` raises.
OverflowTest(o, d) ==
  IF ~HasOrig(o) THEN "false"
  ELSE IF d \notin DOMAIN OVERFLOW_ERROR_CODES THEN "TypeError"
  ELSE IF Errno(o) \in OVERFLOW_ERROR_CODES[d] THEN "true"
  ELSE "false"

\* Variant of ComputeStaticMetricsWoSum whose retry is the same statement,
\* Sum, StdDev and Mean included.
ComputeStaticMetricsWithSum(u, metrics, retry) ==
  IF retry = "ok" THEN Returned({RowOf(u, metrics)})
  ELSE handle_query_exception

\* _compute_static_metrics_wo_sum: the statement without Sum, StdDev, Mean.
ComputeStaticMetricsWoSum(u, metrics, retry) ==
  IF retry = "ok"
  THEN Returned({RowOf(u, metrics \ {"sum", "stdDev", "mean"})})
  ELSE handle_query_exception

GetMetricsTable(u, metrics, o) ==
  IF o = "ok" THEN Returned({RowOf(u, metrics)})
  ELSE IF o = "empty" THEN Returned({})
  ELSE [row |-> {}, exc |-> "RuntimeError", rollback |-> TRUE]

GetMetricsStatic(u, metrics, o, retry, d) ==
  IF o = "ok" THEN Returned({RowOf(u, metrics)})
  ELSE IF IsProgrammingError(o)
  THEN CASE OverflowTest(o, d) = "true" -> ComputeStaticMetricsWoSum(u, metrics, retry)
         [] OverflowTest(o, d) = "TypeError" -> Escaped("TypeError")
         [] OTHER -> Returned({})
  ELSE handle_query_exception

\* The result set of the query of a dict-typed metric, in row order.
ResultColumns == {"boundaries", "frequencies"}
ResultsOf(o) ==
  IF o = "dict_rows" THEN [i \in 1..MaxRows |-> [k \in ResultColumns |-> i]]
  ELSE <<>>

\* {k: [result[k] for result in results] for k in dict(results[0])}:
\* results[0] raises IndexError on an empty list.
ReshapeDict(results) ==
  IF results = <<>> THEN [raises |-> TRUE, data |-> EmptyDict]
  ELSE [raises |-> FALSE,
        data |-> [k \in DOMAIN results[1] |->
                    [i \in 1..Len(results) |-> results[i][k]]]]

\* Query handler: "empty" is a falsy metric_query; "dict_rows" and
\* "dict_empty" are the result sets of a metric whose metric_type is dict.
GetMetricsQuery(u, metrics, o) ==
  IF o = "ok" THEN Returned({RowOf(u, metrics)})
  ELSE IF o = "empty" THEN Returned({})
  ELSE IF o \in {"dict_rows", "dict_empty"}
  THEN LET data == ReshapeDict(ResultsOf(o))
       IN IF data.raises THEN handle_query_exception
          ELSE Returned({[k \in metrics |-> DictVal(u, data.data)]})
  ELSE handle_query_exception

\* Variant of GetMetricsWindow that treats a registered overflow code like
\* any other query exception.
GetMetricsWindowOverflowFails(u, metrics, o, d) ==
  IF o \in {"ok"} THEN Returned({RowOf(u, metrics)})
  ELSE IF o = "empty" THEN Returned({})
  ELSE IF IsProgrammingError(o) /\ OverflowTest(o, d) = "TypeError" THEN Escaped("TypeError")
  ELSE IF IsProgrammingError(o) /\ OverflowTest(o, d) = "false" THEN Escaped("UnboundLocalError")
  ELSE handle_query_exception

GetMetricsWindow(u, metrics, o, d) ==
  IF metrics = {} THEN Returned({})
  ELSE IF o = "ok" THEN Returned({RowOf(u, metrics)})
  ELSE IF o = "empty" THEN Returned({})
  ELSE IF IsProgrammingError(o)
  THEN CASE OverflowTest(o, d) = "true" -> Returned({})
         [] OverflowTest(o, d) = "TypeError" -> Escaped("TypeError")
         [] OTHER -> Escaped("UnboundLocalError")
  ELSE handle_query_exception

GetMetricsSystem(u, metrics, o) ==
  IF o = "ok" THEN Returned({RowOf(u, metrics)})
  ELSE handle_query_exception

\* _get_metrics: valuedispatch on metric_type.value.
GetMetrics(mtype, u, metrics, o, retry, d) ==
  CASE mtype = "Table"  -> GetMetricsTable(u, metrics, o)
    [] mtype = "Static" -> GetMetricsStatic(u, metrics, o, retry, d)
    [] mtype = "Query"  -> GetMetricsQuery(u, metrics, o)
    [] mtype = "Window" -> GetMetricsWindow(u, metrics, o, d)
    [] mtype = "System" -> GetMetricsSystem(u, metrics, o)
    [] OTHER -> Returned({})

\* The retry statement is issued only by a Static unit whose first
\* statement failed with a registered overflow code.
RetriesOf(mtype, o, d) ==
  IF mtype = "Static" /\ IsProgrammingError(o) /\ OverflowTest(o, d) = "true"
  THEN {"ok", "error"} ELSE {"none"}


\* ------------------------------------------------------ metric functions
\* A column type is the set of type families the registry puts it in;
\* "time" is sqlalchemy.TIME.
TypeFamilies == {"quantifiable", "concatenable", "date_time", "time"}
ColumnTypes == SUBSET TypeFamilies
is_quantifiable(type) == "quantifiable" \in type
is_concatenable(type) == "concatenable" \in type
is_date_time(type) == "date_time" \in type

CompileDialects == {"mssql", "clickhouse", "sqlite", "mysql", "mariadb", "postgres"}

\* The metrics a Static unit may list; median is a window metric.
StaticMetricNames == {"mean", "sum", "stddev", "min", "median"}
is_window_metric(m) == m = "median"

\* An expression fn() builds: the SQL function, applied to the column or
\* to LenFn(column).
Expr(f, len) == [fn |-> f, len |-> len]

\* The decorator _label: labels the expression with the metric's name and
\* hands None through.
Label(res, name) ==
  [raises |-> FALSE,
   expr |-> {[fn |-> e.fn, len |-> e.len, label |-> name] : e \in res}]

\* Mean.fn
MeanFn(type) ==
  Label(IF is_quantifiable(type) THEN {Expr("avg", FALSE)}
        ELSE IF is_concatenable(type) THEN {Expr("avg", TRUE)}
        ELSE {}, "mean")

\* Sum.fn
SumFn(type) ==
  Label(IF is_quantifiable(type) THEN {Expr("SumFn", FALSE)}
        ELSE IF is_concatenable(type) THEN {Expr("SumFn", TRUE)}
        ELSE {}, "sum")

\* StdDev.fn
StdDevFn(type) ==
  Label(IF is_quantifiable(type) THEN {Expr("StdDevFn", FALSE)}
        ELSE IF is_concatenable(type) THEN {Expr("StdDevFn", TRUE)}
        ELSE {}, "stddev")

\* Variant of MinFn without the test of the type: MIN of any column.
MinFnAnyType(type) ==
  Label(IF is_concatenable(type) THEN {Expr("MinFn", TRUE)}
        ELSE {Expr("MinFn", FALSE)}, "min")

\* Min.fn
MinFn(type) ==
  Label(IF is_concatenable(type) THEN {Expr("MinFn", TRUE)}
        ELSE IF (~is_quantifiable(type)) /\ (~is_date_time(type)) THEN {}
        ELSE {Expr("MinFn", FALSE)}, "min")

\* metric(column).fn() of the four static metrics.
FnMetrics == {"mean", "sum", "stddev", "min"}
Fn(m, type) ==
  IF m = "mean" THEN MeanFn(type)
  ELSE IF m = "sum" THEN SumFn(type)
  ELSE IF m = "stddev" THEN StdDevFn(type)
  ELSE MinFn(type)

\* compiler.process(element.clauses): the SQL of the argument.
Proc(e) == IF e.len THEN <<"LEN", "(", "col", ")">> ELSE <<"col">>

\* @compiles(avg, ...): ClickHouse guards NaN, MSSQL casts to decimal, the
\* other dialects render the generic avg.
CompileAvg(e, d) ==
  LET proc == Proc(e)
  IN IF d = "clickhouse"
     THEN <<"if", "(", "isNaN", "(", "avg", "(">> \o proc \o <<")", ")", ",", "null", ",", "avg", "(">>
            \o proc \o <<")", ")">>
     ELSE IF d = "mssql"
     THEN <<"avg", "(", "cast", "(">> \o proc \o <<"as", "decimal", ")", ")">>
     ELSE <<"avg", "(">> \o proc \o <<")">>

\* @compiles(StdDevFn, ...)
CompileStdDevFn(e, d) ==
  LET proc == Proc(e)
  IN IF d = "mssql" THEN <<"STDEVP", "(">> \o proc \o <<")">>
     ELSE IF d = "sqlite"
     THEN <<"AVG", "(">> \o proc \o <<"*">> \o proc \o <<")", "-", "AVG", "(">> \o proc
            \o <<")", "*", "AVG", "(">> \o proc \o <<")">>
     ELSE IF d = "clickhouse"
     THEN <<"if", "(", "isNaN", "(", "stddevPop", "(">> \o proc
            \o <<")", ")", ",", "null", ",", "stddevPop", "(">> \o proc \o <<")", ")">>
     ELSE <<"STDDEV_POP", "(">> \o proc \o <<")">>

\* @compiles(MinFn, ...): MySQL and MariaDB turn a TIME column into seconds.
CompileMinFn(e, d, type) ==
  LET col == Proc(e)
  IN IF d \in {"mysql", "mariadb"} /\ "time" \in type /\ ~e.len
     THEN <<"MIN", "(", "TIME_TO_SEC", "(">> \o col \o <<")", ")">>
     ELSE <<"MIN", "(">> \o col \o <<")">>

\* The metrics whose SQL function is compiled in these files.
CompiledMetrics == {"mean", "stddev", "min"}
Compile(e, d, type) ==
  IF e.fn = "avg" THEN CompileAvg(e, d)
  ELSE IF e.fn = "StdDevFn" THEN CompileStdDevFn(e, d)
  ELSE CompileMinFn(e, d, type)

\* The Static handler's select list: fn() of every metric that is not a
\* window metric, None included.
StaticEntities(metrics, type) ==
  [m \in {x \in metrics : ~is_window_metric(x)} |-> Fn(m, type).expr]

\* runner.select_first_from_sample(*entities): the statement the runner
\* issues for the entities it is given.
SelectFirstFromSample(entities) == {entities}

NoMetricIn == [type |-> {}, dialect |-> "postgres", metrics |-> {}]
NoMetricOut == [op |-> "none", fns |-> <<>>, sql |-> <<>>, statement |-> {}]

\* ------------------------------------------------------------------- state
VARIABLES
  units,            \* metric_funcs: the work units, in submission order
  dialect,          \* session.bind.dialect.name
  mainPc,           \* position of the thread that called get_all_metrics
  idx,              \* index of the future the caller is waiting on
  raisedExc,        \* the exception get_all_metrics ends with ("none": returns)
  fut,              \* state of each future
  futResult,        \* (row, column, metric_type) a future returned
  wpc,              \* position of each pool worker
  wunit,            \* the unit a worker is running
  thread_local,     \* threading.local(): sampler and runner per thread
  sessOpen,         \* whether each worker's scoped session is open
  frame,            \* locals of compute_metrics_in_thread, per unit
  failures,         \* processor_status.failures
  records,          \* processor_status.records
  profile_results,  \* the result maps get_all_metrics builds
  profile_sample_config, \* self.profile_sample_config: None or a config
  partition_details,     \* self.partition_details: None or a partition
  profile_query,         \* self.profile_query: None or the rows the user's
                         \* statement selects
  table_rows,            \* the rows of the profiled table
  rnd,                   \* the <table>_rnd CTE behind the last handle: the
                         \* label of each of its rows
  sampled,               \* the handle the last random_sample() returned
  sample_data,           \* the rows of the TableData the last
                         \* fetch_sample_data() returned
  metric_in,             \* a column's type, a dialect and a list of metrics
  metric_out             \* what the last fn(), compilation or Static
                         \* statement made of them

vars == <<units, dialect, mainPc, idx, raisedExc, fut, futResult, wpc, wunit,
          thread_local, sessOpen, frame, failures, records, profile_results,
          profile_sample_config, partition_details, profile_query, table_rows,
          rnd, sampled, sample_data, metric_in, metric_out>>

samplerVars == <<profile_sample_config, partition_details, profile_query,
                 table_rows, rnd, sampled, sample_data>>

metricVars == <<metric_in, metric_out>>

N == Len(units)
UnitIds == 1..N

\* ------------------------------------------------- sessions, sampler, runner
\* create_and_bind_thread_safe_session gives a scoped_session: calling the
\* factory in a thread yields that thread's own session.
SessionFactory(t) == t

\* Variant of GetSampler that ignores the session it is given and binds the
\* sampler to the interface's own session.
GetSamplerMainClient(sessionOpt, id) ==
  [id |-> id, client |-> MainSession, table |-> TableName]

\* _get_sampler: `client=session or self.session`.
GetSampler(sessionOpt, id) ==
  [id |-> id,
   client |-> IF sessionOpt # {} THEN CHOOSE s \in sessionOpt : TRUE
              ELSE MainSession,
   table |-> TableName]

\* QueryRunner(session=..., table=..., sample=...)
QueryRunner(session, table, sample, id) ==
  [id |-> id, session |-> session, table |-> table, sample |-> sample]

\* Variant of CreateThreadSafeSampler without the hasattr test: a sampler is
\* built on every call.
CreateThreadSafeSamplerAlways(tl, t, session, id) ==
  [tl EXCEPT ![t].sampler = {[id |-> id, client |-> session, table |-> TableName]}]

\* _create_thread_safe_sampler: builds the sampler only when the thread has
\* none; returns the thread-local state after the call.
CreateThreadSafeSampler(tl, t, session, id) ==
  IF tl[t].sampler = {}
  THEN [tl EXCEPT ![t].sampler = {GetSampler({session}, id)}]
  ELSE tl

\* _create_thread_safe_runner: same, for the runner.
CreateThreadSafeRunner(tl, t, session, sample, id) ==
  IF tl[t].runner = {}
  THEN [tl EXCEPT ![t].runner = {QueryRunner(session, TableName, sample, id)}]
  ELSE tl

\* ------------------------------------------------------------------ sampler
\* Python truth value of profile_sample: None and 0 are false.
Falsy(cfg) == \A c \in cfg : c.profile_sample = 0

\* Variant of SampleKind without the table branch: a subquery is built
\* whenever there is no sample size.
SampleKindAlwaysSubquery(cfg, pd, query) ==
  IF query # {} THEN "user_query"
  ELSE IF Falsy(cfg) THEN "partitioned"
  ELSE "sampled"

\* The branch random_sample() takes, lines 97-115.
SampleKind(cfg, pd, query) ==
  IF query # {} THEN "user_query"
  ELSE IF Falsy(cfg) THEN (IF pd # {} THEN "partitioned" ELSE "table")
  ELSE "sampled"

\* A row of the table: its identity and the value of the partition column.
RowIds == 1..MaxRows
PartValues == 0..1
Rows == [id : RowIds, v : PartValues]
Tables == {T \in SUBSET Rows : \A r, q \in T : r.id = q.id => r = q}

\* ProfileSampleConfig: a percentage in (0,100] or a row count.
Percentages == {1, 50, 100}
SampleConfigs ==
  {{}} \cup {{[profile_sample |-> p, profile_sample_type |-> "PERCENTAGE"]} : p \in Percentages}
       \cup {{[profile_sample |-> n, profile_sample_type |-> "ROWS"]} : n \in 0..MaxRows}

\* PartitionProfilerConfig on the partition column: a value list, an integer
\* range, or a time window (rows at or after partitionInterval units ago).
PartitionConfigs ==
  {[partitionIntervalType |-> "COLUMN-VALUE", partitionValues |-> {1},
    partitionIntegerRangeStart |-> 0, partitionIntegerRangeEnd |-> 0,
    partitionInterval |-> 0],
   [partitionIntervalType |-> "INTEGER-RANGE", partitionValues |-> {},
    partitionIntegerRangeStart |-> 0, partitionIntegerRangeEnd |-> 0,
    partitionInterval |-> 0],
   [partitionIntervalType |-> "TIME-UNIT", partitionValues |-> {},
    partitionIntegerRangeStart |-> 0, partitionIntegerRangeEnd |-> 0,
    partitionInterval |-> 1]}

\* get_value_filter, get_integer_range_filter and build_query_filter with
\* "ge": the predicate the partition puts on a row.
PartitionFilter(pd, r) ==
  IF pd.partitionIntervalType = "COLUMN-VALUE" THEN r.v \in pd.partitionValues
  ELSE IF pd.partitionIntervalType = "INTEGER-RANGE"
  THEN pd.partitionIntegerRangeStart <= r.v /\ r.v <= pd.partitionIntegerRangeEnd
  ELSE r.v >= pd.partitionInterval

\* Variant of PartitionedTable that selects the table without the filter.
PartitionedTableNoFilter(pd, tbl) == tbl

\* _partitioned_table: the rows of the aliased, filtered subquery.
PartitionedTable(pd, tbl) ==
  {r \in tbl : \A d \in pd : PartitionFilter(d, r)}

\* partition_filter_handler(build_sample=True): with a partition, the
\* wrapped query samples the rows of the partition.
PartitionFilterHandler(pd, tbl) ==
  IF pd # {} THEN {r \in tbl : \A d \in pd : PartitionFilter(d, r)} ELSE tbl

\* RandomNumFn: values random() gives; ModuloFn: the remainder.
RandomNumFn == {0, 50, 151}
ModuloFn(x, m) == x % m

NoRnd == [r \in {} |-> 0]

\* query(table, ModuloFn(RandomNumFn(), m).label("random")): every way of
\* labelling the rows.
Labelled(rows, m) ==
  IF rows = {} THEN {NoRnd}
  ELSE [rows -> {ModuloFn(x, m) : x \in RandomNumFn}]

\* .suffix_with("SAMPLE BERNOULLI (p)", dialect=snowflake): on Snowflake the
\* statement reads each row with probability p/100; elsewhere the suffix is
\* not rendered.
SuffixWith(d, rows, p) ==
  IF d = "snowflake" THEN (IF p >= 100 THEN {rows} ELSE SUBSET rows)
  ELSE {rows}

\* get_sample_query, PERCENTAGE branch: label the rows the statement reads
\* and keep those whose label is at most profile_sample.
GetSampleQueryPercentage(d, rows, p) ==
  {[rnd |-> l, rows |-> {r \in DOMAIN l : l[r] <= p}] :
     l \in UNION {Labelled(S, 100) : S \in SuffixWith(d, rows, p)}}

\* order_by(RANDOM_LABEL).limit(n): n rows of least label, or all the rows
\* when there are fewer; rows of equal label come in any order.
FirstN(rows, l, n) ==
  LET k == IF n <= Cardinality(rows) THEN n ELSE Cardinality(rows)
  IN {S \in SUBSET rows :
        /\ Cardinality(S) = k
        /\ \A r \in S, q \in rows \ S : l[r] <= l[q]}

\* Variant of GetSampleQueryRows without the limit.
GetSampleQueryRowsNoLimit(rows, count, n) ==
  {[rnd |-> l, rows |-> rows] : l \in Labelled(rows, count)}

\* get_sample_query, row-count branch: label the rows modulo the table's
\* count, order by the label, take the first profile_sample.
GetSampleQueryRows(rows, count, n) ==
  UNION {{[rnd |-> l, rows |-> S] : S \in FirstN(rows, l, n)} :
           l \in Labelled(rows, count)}

\* get_sample_query under its decorator: the possible samples.
GetSampleQuery(d, c, pd, tbl) ==
  IF c.profile_sample_type = "PERCENTAGE"
  THEN GetSampleQueryPercentage(d, PartitionFilterHandler(pd, tbl), c.profile_sample)
  ELSE GetSampleQueryRows(PartitionFilterHandler(pd, tbl), Cardinality(tbl),
                          c.profile_sample)

\* The statements get_sample_query executes while it builds the query: the
\* row-count branch runs table_query.count(); everything else is lazy.
CountQueries(c) == IF c.profile_sample_type = "PERCENTAGE" THEN 0 ELSE 1

\* random_sample: the handles a call may return, with the rows each selects
\* and the number of statements the call executed.
RandomSampleOutcomes(d, cfg, pd, query, tbl) ==
  LET kind == SampleKind(cfg, pd, query)
  IN IF kind = "user_query"
     THEN {[kind |-> kind, rnd |-> NoRnd, rows |-> q, queries |-> 0] : q \in query}
     ELSE IF kind = "partitioned"
     THEN {[kind |-> kind, rnd |-> NoRnd, rows |-> PartitionedTable(pd, tbl),
            queries |-> 0]}
     ELSE IF kind = "table"
     THEN {[kind |-> kind, rnd |-> NoRnd, rows |-> tbl, queries |-> 0]}
     ELSE UNION {{[kind |-> kind, rnd |-> o.rnd, rows |-> o.rows,
                   queries |-> CountQueries(c)] :
                    o \in GetSampleQuery(d, c, pd, tbl)} : c \in cfg}

\* self.sample_limit
sample_limit == 100

\* A result set of n rows; id is the place of the row in the cursor.
QueryResult(n) == {[id |-> i, v |-> 0] : i \in 1..n}

\* What a user's statement may select: any rows, within the cap or one
\* more than the cap.
UserQueries == Tables \cup {QueryResult(sample_limit + 1)}

\* The sets left of S when m of its elements are dropped.
RECURSIVE Dropping(_, _)
Dropping(S, m) ==
  IF m = 0 THEN {S} ELSE UNION {Dropping(S \ {x}, m - 1) : x \in S}

\* .limit(k).all() on a query without an order: k of the rows, or all the
\* rows when there are fewer.
Limit(rows, k) ==
  IF Cardinality(rows) <= k THEN {rows}
  ELSE Dropping(rows, Cardinality(rows) - k)

\* Variant of FetchSampleDataFromUserQuery that fetches every row.
FetchSampleDataFromUserQueryAll(query) == query

\* cursor.fetchmany(k): the k rows that come first in the cursor.
FetchMany(q, k) == {r \in q : Cardinality({x \in q : x.id < r.id}) < k}

\* _fetch_sample_data_from_user_query: execute the statement, fetchmany(100).
FetchSampleDataFromUserQuery(query) == {FetchMany(q, 100) : q \in query}

\* fetch_sample_data: the rows of the TableData it may return.  Without a
\* sampling configuration get_sample_query takes the row-count branch with
\* limit(None), which renders no LIMIT.
FetchSampleDataOutcomes(d, cfg, pd, query, tbl) ==
  IF query # {} THEN FetchSampleDataFromUserQuery(query)
  ELSE LET from == PartitionFilterHandler(pd, tbl)
           samples == IF cfg = {}
                      THEN GetSampleQueryRows(from, Cardinality(tbl), Cardinality(from))
                      ELSE UNION {GetSampleQuery(d, c, pd, tbl) : c \in cfg}
       IN UNION {Limit(o.rows, sample_limit) : o \in samples}

\* sampler.random_sample() as compute_metrics_in_thread sees it: the handle
\* this call returns.  Without a query, a sample size or a partition it is
\* the table itself; every other branch builds a new object on each call.
RandomSample(sampler, call) ==
  [table |-> sampler.table,
   call |-> IF SampleKind(profile_sample_config, partition_details,
                          profile_query) = "table" THEN 0 ELSE call]

\* ------------------------------------------------------------------ status
\* `column if column is not None else runner.table.__tablename__`
ErrorIdent(column) ==
  IF column # NoColumn THEN [kind |-> "column", column |-> column]
  ELSE [kind |-> "table", column |-> NoColumn]

\* Variant of FailedProfiler that drops the failure.
FailedProfilerDropped(fs, column, exc) == fs

\* Status.failed via failed_profiler: entity is unset, so the name is "".
FailedProfiler(fs, column, exc) ==
  Append(fs, [name |-> "", error |-> ErrorIdent(column), exc |-> exc])

\* ProfilerProcessorStatus.scanned
Scanned(rs, column) == Append(rs, ErrorIdent(column))

\* -------------------------------------------------------------- aggregation
\* Variant of Aggregate that mixes up the Table and System destinations.
AggregateMisrouted(pr, res, now) ==
  LET profile == IF res.row = {} THEN EmptyDict ELSE CHOOSE r \in res.row : TRUE
      old == IF res.column \in DOMAIN pr.columns THEN pr.columns[res.column]
             ELSE EmptyDict
      entry == Update([k \in {"name", "timestamp"} |->
                         IF k = "name" THEN NameVal(res.column) ELSE TimeVal(now)],
                      profile)
  IN IF res.mtype = "System"
     THEN [pr EXCEPT !.table = Update(pr.table, profile)]
     ELSE IF res.mtype = "Table"
     THEN [pr EXCEPT !.system = {res.row}]
     ELSE [pr EXCEPT !.columns =
             Update(pr.columns, [c \in {res.column} |-> Update(old, entry)])]

\* Variant of Aggregate that, for a None row, keeps the profile aggregated
\* last instead of an empty dict.
AggregateStaleProfile(pr, res, now) ==
  LET profile == IF res.row = {} THEN pr.table ELSE CHOOSE r \in res.row : TRUE
      old == IF res.column \in DOMAIN pr.columns THEN pr.columns[res.column]
             ELSE EmptyDict
      entry == Update([k \in {"name", "timestamp"} |->
                         IF k = "name" THEN NameVal(res.column) ELSE TimeVal(now)],
                      profile)
  IN IF res.mtype = "Table"
     THEN [pr EXCEPT !.table = Update(pr.table, profile)]
     ELSE IF res.mtype = "System"
     THEN [pr EXCEPT !.system = {res.row}]
     ELSE [pr EXCEPT !.columns =
             Update(pr.columns, [c \in {res.column} |-> Update(old, entry)])]

\* Variant of Aggregate in which a key already present keeps its value.
AggregateKeepsFirst(pr, res, now) ==
  LET profile == IF res.row = {} THEN EmptyDict ELSE CHOOSE r \in res.row : TRUE
      old == IF res.column \in DOMAIN pr.columns THEN pr.columns[res.column]
             ELSE EmptyDict
      entry == Update([k \in {"name", "timestamp"} |->
                         IF k = "name" THEN NameVal(res.column) ELSE TimeVal(now)],
                      profile)
  IN IF res.mtype = "Table"
     THEN [pr EXCEPT !.table = Update(profile, pr.table)]
     ELSE IF res.mtype = "System"
     THEN [pr EXCEPT !.system = IF pr.system = {} THEN {res.row} ELSE pr.system]
     ELSE [pr EXCEPT !.columns =
             Update(pr.columns, [c \in {res.column} |-> Update(entry, old)])]

\* Body of the loop of get_all_metrics for one future result.
Aggregate(pr, res, now) ==
  LET profile == IF res.mtype # "System" /\ res.row = {} THEN EmptyDict
                 ELSE IF res.row = {} THEN EmptyDict
                 ELSE CHOOSE r \in res.row : TRUE
      old == IF res.column \in DOMAIN pr.columns THEN pr.columns[res.column]
             ELSE EmptyDict
      entry == Update([k \in {"name", "timestamp"} |->
                         IF k = "name" THEN NameVal(res.column) ELSE TimeVal(now)],
                      profile)
  IN IF res.mtype = "Table"
     THEN [pr EXCEPT !.table = Update(pr.table, profile)]
     ELSE IF res.mtype = "System"
     THEN [pr EXCEPT !.system = {res.row}]
     ELSE [pr EXCEPT !.columns =
             Update(pr.columns, [c \in {res.column} |-> Update(old, entry)])]

\* Variant of WorkerResults in which the worker aggregates its own row.
WorkerResultsAggregates(pr, res, now) == Aggregate(pr, res, now)

\* What compute_metrics_in_thread does to the result maps: nothing, it
\* returns the row to the future.
WorkerResults(pr, res, now) == pr

\* ------------------------------------------------------------------ actions
NoFrame ==
  [thread |-> 0, session |-> {}, sampler |-> {}, sample |-> {}, runner |-> {},
   prep |-> "none", outcome |-> "none", retry |-> "none",
   row |-> {}, exc |-> "none", rolledBack |-> FALSE]

\* The sampling configurations of the runs of get_all_metrics: none, or one
\* row of the table.
RunSampleConfigs == {{}, {[profile_sample |-> 1, profile_sample_type |-> "ROWS"]}}

Init ==
  /\ profile_sample_config \in RunSampleConfigs
  /\ partition_details = {}
  /\ profile_query = {}
  /\ table_rows = {}
  /\ rnd = NoRnd
  /\ sampled = {}
  /\ sample_data = {}
  /\ metric_in = NoMetricIn
  /\ metric_out = NoMetricOut
  /\ units \in UnitLists
  /\ dialect \in Dialects
  /\ mainPc = "start"
  /\ idx = 1
  /\ raisedExc = "none"
  /\ fut = [u \in DOMAIN units |-> "new"]
  /\ futResult = [u \in DOMAIN units |-> {}]
  /\ wpc = [t \in Threads |-> "idle"]
  /\ wunit = [t \in Threads |-> 0]
  /\ thread_local = [t \in Threads |-> [sampler |-> {}, runner |-> {}]]
  /\ sessOpen = [t \in Threads |-> FALSE]
  /\ frame = [u \in DOMAIN units |-> NoFrame]
  /\ failures = <<>>
  /\ records = <<>>
  /\ profile_results = [table |-> EmptyDict, columns |-> EmptyDict, system |-> {}]

\* get_all_metrics, lines 444-452: create the pool and submit every unit.
Submit ==
  /\ mainPc = "start"
  /\ mainPc' = "collect"
  /\ fut' = [u \in UnitIds |-> "pending"]
  /\ UNCHANGED samplerVars
  /\ UNCHANGED metricVars
  /\ UNCHANGED <<units, dialect, idx, raisedExc, futResult, wpc, wunit,
                 thread_local, sessOpen, frame, failures, records,
                 profile_results>>

Pending == {u \in UnitIds : fut[u] = "pending"}
NextPending == CHOOSE u \in Pending : \A v \in Pending : u <= v

\* Pool threads are numbered in the order in which they take their first
\* unit: a thread that has not run yet starts only after the ones before it.
MayTake(t) == \A s \in Threads : s < t => \E u \in UnitIds : frame[u].thread = s

\* compute_metrics_in_thread, lines 399-412: a worker takes the next queued
\* unit, opens its session and prepares sampler, sample and runner.
WorkerPrepare(t) ==
  /\ wpc[t] = "idle"
  /\ Pending # {}
  /\ MayTake(t)
  /\ LET u == NextPending
         session == SessionFactory(t)
         tl1 == CreateThreadSafeSampler(thread_local, t, session, u)
         sampler == CHOOSE s \in tl1[t].sampler : TRUE
         sample == RandomSample(sampler, u)
         tl2 == CreateThreadSafeRunner(tl1, t, session, sample, u)
     IN /\ fut' = [fut EXCEPT ![u] = "running"]
        /\ wunit' = [wunit EXCEPT ![t] = u]
        /\ sessOpen' = [sessOpen EXCEPT ![session] = TRUE]
        /\ thread_local' = tl2
        /\ frame' = [frame EXCEPT ![u] =
                     [NoFrame EXCEPT !.thread = t, !.session = {session},
                                     !.sampler = tl1[t].sampler,
                                     !.sample = {sample},
                                     !.runner = tl2[t].runner, !.prep = "ok"]]
        /\ wpc' = [wpc EXCEPT ![t] = "prepared"]
  /\ UNCHANGED samplerVars
  /\ UNCHANGED metricVars
  /\ UNCHANGED <<units, dialect, mainPc, idx, raisedExc, futResult, failures,
                 records, profile_results>>

\* compute_metrics_in_thread, lines 399-407, when the preparation raises:
\* before the sampler exists (session tag, catalog) or in random_sample.
\* The exception leaves the `with` block, which closes the session, and
\* the future holds the exception.
WorkerPrepareRaises(t) ==
  /\ wpc[t] = "idle"
  /\ Pending # {}
  /\ MayTake(t)
  /\ LET u == NextPending
         session == SessionFactory(t)
         tl1 == CreateThreadSafeSampler(thread_local, t, session, u)
     IN /\ fut' = [fut EXCEPT ![u] = "error"]
        /\ sessOpen' = [sessOpen EXCEPT ![session] = FALSE]
        /\ \E p \in {"tag_error", "sample_error"} :
             \/ /\ p = "tag_error"
                /\ thread_local' = thread_local
                /\ frame' = [frame EXCEPT ![u] =
                     [NoFrame EXCEPT !.thread = t, !.session = {session},
                                     !.prep = p]]
             \/ /\ p = "sample_error"
                /\ thread_local' = tl1
                /\ frame' = [frame EXCEPT ![u] =
                     [NoFrame EXCEPT !.thread = t, !.session = {session},
                                     !.sampler = tl1[t].sampler, !.prep = p]]
  /\ UNCHANGED samplerVars
  /\ UNCHANGED metricVars
  /\ UNCHANGED <<units, dialect, mainPc, idx, raisedExc, futResult, wpc, wunit,
                 failures, records, profile_results>>

\* Variant of TryGetMetrics whose except clause catches RuntimeError only.
TryGetMetricsNarrow(r) ==
  IF r.exc = "RuntimeError" THEN [row |-> {}, failed |-> TRUE, escapes |-> FALSE]
  ELSE IF r.exc # "none" THEN [row |-> {}, failed |-> FALSE, escapes |-> TRUE]
  ELSE [row |-> r.row, failed |-> FALSE, escapes |-> FALSE]

\* compute_metrics_in_thread, lines 414-427: the try/except around the
\* dispatch.  Every exception is caught: the failure is to be recorded and
\* the row is None; nothing escapes to the future.
TryGetMetrics(r) ==
  IF r.exc # "none" THEN [row |-> {}, failed |-> TRUE, escapes |-> FALSE]
  ELSE [row |-> r.row, failed |-> FALSE, escapes |-> FALSE]

\* compute_metrics_in_thread, lines 414-435: the dispatch to the handler of
\* the unit's metric type with the statement's outcome; then the failure is
\* recorded when the handler raised, the scan is recorded, the session's
\* `with` block is left and the triple is returned to the future.
WorkerRun(t) ==
  /\ wpc[t] = "prepared"
  /\ LET u == wunit[t]
         mtype == units[u].mtype
         column == units[u].column
     IN \E o \in OutcomesOf(mtype) : \E retry \in RetriesOf(mtype, o, dialect) :
          LET r == GetMetrics(mtype, u, MetricsOf(mtype), o, retry, dialect)
              c == TryGetMetrics(r)
              res == [row |-> c.row, column |-> column, mtype |-> mtype]
          IN /\ frame' = [frame EXCEPT ![u].outcome = o, ![u].retry = retry,
                                       ![u].row = r.row, ![u].exc = r.exc,
                                       ![u].rolledBack = r.rollback]
             /\ failures' = IF c.failed
                            THEN FailedProfiler(failures, column, r.exc)
                            ELSE failures
             /\ records' = IF c.escapes THEN records
                           ELSE Scanned(records, column)
             /\ futResult' = IF c.escapes THEN futResult
                             ELSE [futResult EXCEPT ![u] = {res}]
             /\ fut' = [fut EXCEPT ![u] = IF c.escapes THEN "error" ELSE "done"]
             /\ sessOpen' = [sessOpen EXCEPT ![CHOOSE s \in frame[u].session : TRUE] = FALSE]
             /\ profile_results' = WorkerResults(profile_results, res, u)
  /\ wpc' = [wpc EXCEPT ![t] = "idle"]
  /\ wunit' = [wunit EXCEPT ![t] = 0]
  /\ UNCHANGED samplerVars
  /\ UNCHANGED metricVars
  /\ UNCHANGED <<units, dialect, mainPc, idx, raisedExc, thread_local>>

\* Variant of Collect that skips a future holding an exception.
CollectSkipsError ==
  /\ mainPc = "collect"
  /\ idx <= N
  /\ \/ /\ fut[idx] = "done"
        /\ profile_results' =
             Aggregate(profile_results, CHOOSE r \in futResult[idx] : TRUE, idx)
     \/ /\ fut[idx] = "error"
        /\ UNCHANGED profile_results
  /\ idx' = idx + 1
  /\ UNCHANGED <<mainPc, raisedExc>>
  /\ UNCHANGED samplerVars
  /\ UNCHANGED metricVars
  /\ UNCHANGED <<units, dialect, fut, futResult, wpc, wunit, thread_local,
                 sessOpen, frame, failures, records>>

\* get_all_metrics, lines 454-479: future.result() of a finished future.  A
\* result is aggregated; an exception held by the future is re-raised and
\* leaves get_all_metrics through the pool's `with` block.
Collect ==
  /\ mainPc = "collect"
  /\ idx <= N
  /\ \/ /\ fut[idx] = "done"
        /\ profile_results' =
             Aggregate(profile_results, CHOOSE r \in futResult[idx] : TRUE, idx)
        /\ idx' = idx + 1
        /\ UNCHANGED <<mainPc, raisedExc>>
     \/ /\ fut[idx] = "error"
        /\ mainPc' = "exiting"
        /\ raisedExc' = "WorkerError"
        /\ UNCHANGED <<idx, profile_results>>
  /\ UNCHANGED samplerVars
  /\ UNCHANGED metricVars
  /\ UNCHANGED <<units, dialect, fut, futResult, wpc, wunit, thread_local,
                 sessOpen, frame, failures, records>>

\* pool.shutdown39(wait=True, cancel_futures=True): every queued future is
\* cancelled, the running ones are waited for.
Shutdown39(f) == [u \in DOMAIN f |-> IF f[u] = "pending" THEN "cancelled" ELSE f[u]]

\* Variant of Timeout that shuts the pool down without cancel_futures.
TimeoutNoCancel ==
  /\ mainPc = "collect"
  /\ idx <= N
  /\ fut[idx] \in {"pending", "running"}
  /\ mainPc' = "exiting"
  /\ raisedExc' = "TimeoutError"
  /\ UNCHANGED samplerVars
  /\ UNCHANGED metricVars
  /\ UNCHANGED <<units, dialect, idx, fut, futResult, wpc, wunit, thread_local,
                 sessOpen, frame, failures, records, profile_results>>

\* get_all_metrics, lines 480-484: the wait on a future that has not
\* finished times out.
Timeout ==
  /\ mainPc = "collect"
  /\ idx <= N
  /\ fut[idx] \in {"pending", "running"}
  /\ fut' = Shutdown39(fut)
  /\ mainPc' = "exiting"
  /\ raisedExc' = "TimeoutError"
  /\ UNCHANGED samplerVars
  /\ UNCHANGED metricVars
  /\ UNCHANGED <<units, dialect, idx, futResult, wpc, wunit, thread_local,
                 sessOpen, frame, failures, records, profile_results>>

\* get_all_metrics, line 486 after the loop: leave the `with` block.
LoopEnd ==
  /\ mainPc = "collect"
  /\ idx > N
  /\ mainPc' = "exiting"
  /\ UNCHANGED samplerVars
  /\ UNCHANGED metricVars
  /\ UNCHANGED <<units, dialect, idx, raisedExc, fut, futResult, wpc, wunit,
                 thread_local, sessOpen, frame, failures, records,
                 profile_results>>

\* Variant of PoolExit that does not wait for the workers.
PoolExitNoWait ==
  /\ mainPc = "exiting"
  /\ mainPc' = IF raisedExc = "none" THEN "returned" ELSE "raised"
  /\ UNCHANGED samplerVars
  /\ UNCHANGED metricVars
  /\ UNCHANGED <<units, dialect, idx, raisedExc, fut, futResult, wpc, wunit,
                 thread_local, sessOpen, frame, failures, records,
                 profile_results>>

\* The pool's __exit__ is shutdown(wait=True): it returns once every queued
\* unit has run; then get_all_metrics returns or the exception propagates.
PoolExit ==
  /\ mainPc = "exiting"
  /\ \A u \in UnitIds : fut[u] \in {"done", "error", "cancelled"}
  /\ mainPc' = IF raisedExc = "none" THEN "returned" ELSE "raised"
  /\ UNCHANGED samplerVars
  /\ UNCHANGED metricVars
  /\ UNCHANGED <<units, dialect, idx, raisedExc, fut, futResult, wpc, wunit,
                 thread_local, sessOpen, frame, failures, records,
                 profile_results>>

Next ==
  \/ Submit
  \/ \E t \in Threads : WorkerPrepare(t)
  \/ \E t \in Threads : WorkerPrepareRaises(t)
  \/ \E t \in Threads : WorkerRun(t)
  \/ Collect
  \/ Timeout
  \/ LoopEnd
  \/ PoolExit

Spec == Init /\ [][Next]_vars

\* ------------------------------------------------------- the sampler alone
runVars == <<units, dialect, mainPc, idx, raisedExc, fut, futResult, wpc, wunit,
             thread_local, sessOpen, frame, failures, records, profile_results>>

\* A sampler built by _get_sampler for a table, before any run: every
\* sampling configuration, partition, user query and table content.
SamplerInit ==
  /\ profile_sample_config \in SampleConfigs
  /\ partition_details \in {{}} \cup {{pd} : pd \in PartitionConfigs}
  /\ profile_query \in {{}} \cup {{T} : T \in UserQueries}
  /\ table_rows \in Tables
  /\ rnd = NoRnd
  /\ sampled = {}
  /\ sample_data = {}
  /\ metric_in = NoMetricIn
  /\ metric_out = NoMetricOut
  /\ dialect \in Dialects
  /\ units = <<>>
  /\ mainPc = "start"
  /\ idx = 1
  /\ raisedExc = "none"
  /\ fut = <<>>
  /\ futResult = <<>>
  /\ wpc = [t \in Threads |-> "idle"]
  /\ wunit = [t \in Threads |-> 0]
  /\ thread_local = [t \in Threads |-> [sampler |-> {}, runner |-> {}]]
  /\ sessOpen = [t \in Threads |-> FALSE]
  /\ frame = <<>>
  /\ failures = <<>>
  /\ records = <<>>
  /\ profile_results = [table |-> EmptyDict, columns |-> EmptyDict, system |-> {}]

\* The branch the sampler's next call of random_sample() takes, and the
\* handles that call may return.
Kind == SampleKind(profile_sample_config, partition_details, profile_query)
Outcomes ==
  RandomSampleOutcomes(dialect, profile_sample_config, partition_details,
                       profile_query, table_rows)

\* random_sample, lines 102-103: the user's query.
RandomSampleUserQuery ==
  /\ Kind = "user_query"
  /\ \E o \in Outcomes :
       /\ sampled' = {[kind |-> o.kind, rows |-> o.rows, queries |-> o.queries]}
       /\ rnd' = o.rnd
  /\ UNCHANGED <<profile_sample_config, partition_details, profile_query,
                 table_rows, sample_data>>
  /\ UNCHANGED runVars
  /\ UNCHANGED metricVars

\* random_sample, lines 105-107: no sample size, a partition.
RandomSamplePartitioned ==
  /\ Kind = "partitioned"
  /\ \E o \in Outcomes :
       /\ sampled' = {[kind |-> o.kind, rows |-> o.rows, queries |-> o.queries]}
       /\ rnd' = o.rnd
  /\ UNCHANGED <<profile_sample_config, partition_details, profile_query,
                 table_rows, sample_data>>
  /\ UNCHANGED runVars
  /\ UNCHANGED metricVars

\* random_sample, lines 105-109: no sample size, no partition.
RandomSampleTable ==
  /\ Kind = "table"
  /\ \E o \in Outcomes :
       /\ sampled' = {[kind |-> o.kind, rows |-> o.rows, queries |-> o.queries]}
       /\ rnd' = o.rnd
  /\ UNCHANGED <<profile_sample_config, partition_details, profile_query,
                 table_rows, sample_data>>
  /\ UNCHANGED runVars
  /\ UNCHANGED metricVars

\* random_sample, lines 111-115: get_sample_query.
RandomSampleSampled ==
  /\ Kind = "sampled"
  /\ \E o \in Outcomes :
       /\ sampled' = {[kind |-> o.kind, rows |-> o.rows, queries |-> o.queries]}
       /\ rnd' = o.rnd
  /\ UNCHANGED <<profile_sample_config, partition_details, profile_query,
                 table_rows, sample_data>>
  /\ UNCHANGED runVars
  /\ UNCHANGED metricVars

\* fetch_sample_data, lines 117-138.
FetchSampleData ==
  /\ \E td \in FetchSampleDataOutcomes(dialect, profile_sample_config,
                                       partition_details, profile_query,
                                       table_rows) :
       sample_data' = {td}
  /\ UNCHANGED <<profile_sample_config, partition_details, profile_query,
                 table_rows, rnd, sampled>>
  /\ UNCHANGED runVars
  /\ UNCHANGED metricVars

SamplerNext ==
  \/ FetchSampleData
  \/ RandomSampleUserQuery
  \/ RandomSamplePartitioned
  \/ RandomSampleTable
  \/ RandomSampleSampled

SamplerSpec == SamplerInit /\ [][SamplerNext]_vars


\* ------------------------------------------------ metric functions alone
\* Every column type, dialect and list of static metrics.
MetricInit ==
  /\ metric_in \in [type : ColumnTypes, dialect : CompileDialects,
                    metrics : SUBSET StaticMetricNames]
  /\ metric_out = NoMetricOut
  /\ profile_sample_config = {}
  /\ partition_details = {}
  /\ profile_query = {}
  /\ table_rows = {}
  /\ rnd = NoRnd
  /\ sampled = {}
  /\ sample_data = {}
  /\ dialect = "postgres"
  /\ units = <<>>
  /\ mainPc = "start"
  /\ idx = 1
  /\ raisedExc = "none"
  /\ fut = <<>>
  /\ futResult = <<>>
  /\ wpc = [t \in Threads |-> "idle"]
  /\ wunit = [t \in Threads |-> 0]
  /\ thread_local = [t \in Threads |-> [sampler |-> {}, runner |-> {}]]
  /\ sessOpen = [t \in Threads |-> FALSE]
  /\ frame = <<>>
  /\ failures = <<>>
  /\ records = <<>>
  /\ profile_results = [table |-> EmptyDict, columns |-> EmptyDict, system |-> {}]

\* metric(column).fn() of every static metric of the list.
MetricFn ==
  /\ metric_out' =
       [NoMetricOut EXCEPT !.op = "fn",
          !.fns = [m \in metric_in.metrics \cap FnMetrics |-> Fn(m, metric_in.type)]]
  /\ UNCHANGED <<metric_in, runVars, samplerVars>>

\* The SQL the dialect's compiler renders for every applicable metric.
MetricCompile ==
  /\ metric_out' =
       [NoMetricOut EXCEPT !.op = "compile",
          !.sql = [m \in {x \in metric_in.metrics \cap CompiledMetrics :
                           Fn(x, metric_in.type).expr # {}} |->
                   Compile(CHOOSE e \in Fn(m, metric_in.type).expr : TRUE,
                           metric_in.dialect, metric_in.type)]]
  /\ UNCHANGED <<metric_in, runVars, samplerVars>>

\* The Static handler, lines 225-232: the statement it has the runner issue.
StaticStatement ==
  /\ metric_out' =
       [NoMetricOut EXCEPT !.op = "static",
          !.statement = SelectFirstFromSample(
                          StaticEntities(metric_in.metrics, metric_in.type))]
  /\ UNCHANGED <<metric_in, runVars, samplerVars>>

MetricNext ==
  \/ MetricFn
  \/ MetricCompile
  \/ StaticStatement

MetricSpec == MetricInit /\ [][MetricNext]_vars

\* ------------------------------------------------------------- properties
Ran(u) == fut[u] = "done"
HandlerRaised(u) == Ran(u) /\ frame[u].exc # "none"
PrepRaised(u) == frame[u].prep \in {"tag_error", "sample_error"}
Succeeded(u) == Ran(u) /\ frame[u].exc = "none" /\ frame[u].row # {}
TheRow(u) == CHOOSE r \in frame[u].row : TRUE
Consumed(u) == Ran(u) /\ u < idx

\* x is a value computed by unit u.
IsValueOf(x, u) == x.kind \in {"metric", "dict"} /\ x.v = u

\* A value computed by unit u is present in one of the three result maps.
InTable(u) == \E k \in DOMAIN profile_results.table :
                IsValueOf(profile_results.table[k], u)
InColumns(u) == \E c \in DOMAIN profile_results.columns :
                  \E k \in DOMAIN profile_results.columns[c] :
                    IsValueOf(profile_results.columns[c][k], u)
InSystem(u) == \E rowOpt \in profile_results.system : \E r \in rowOpt :
                 \E k \in DOMAIN r : IsValueOf(r[k], u)

\* The statement of unit u failed with an error the handlers are not meant
\* to recover from: any error but a registered overflow code, or the
\* failure of the retry after one.
ComputationRaised(u) ==
  /\ Ran(u)
  /\ \/ frame[u].outcome \in {"error", "prog_other", "prog_noorig"}
     \/ /\ frame[u].outcome = "overflow"
        /\ \/ dialect \notin DOMAIN OVERFLOW_ERROR_CODES
           \/ frame[u].retry = "error"

CountIn(seq, P(_)) == Cardinality({i \in DOMAIN seq : P(seq[i])})

\* C1: when the handler of one column's unit raises inside the dispatch,
\* get_all_metrics still returns (it raises only after a timeout or an
\* error of a unit's preparation), and the returned `columns` map holds,
\* for every unit of a column that computed a row, each metric of that row
\* (with the unit's value, or that of a later unit of the same column).
C1_SiblingColumnsKept ==
  /\ mainPc = "raised" =>
       raisedExc = "TimeoutError" \/ \E u \in UnitIds : PrepRaised(u)
  /\ mainPc = "returned" =>
       \A u \in UnitIds :
         (Succeeded(u) /\ units[u].column # NoColumn) =>
           /\ units[u].column \in DOMAIN profile_results.columns
           /\ \A k \in DOMAIN TheRow(u) :
                /\ k \in DOMAIN profile_results.columns[units[u].column]
                /\ \E v \in UnitIds :
                     /\ v >= u
                     /\ units[v].column = units[u].column
                     /\ IsValueOf(profile_results.columns[units[u].column][k], v)

C1_Witness ==
  /\ mainPc = "returned"
  /\ \E u, v \in UnitIds :
       /\ units[u].column # NoColumn /\ units[v].column # NoColumn
       /\ units[u].column # units[v].column
       /\ HandlerRaised(u)
       /\ Succeeded(v)
       /\ InColumns(v)

\* C2: whenever the handler of a unit raised and the failure was recorded,
\* rollback was called on the unit's session.  (Stated as the claim has it;
\* the code violates it.)
C2_RollbackBeforeFailure ==
  \A u \in UnitIds : HandlerRaised(u) => frame[u].rolledBack

\* C3: for every column or table identifier, the failures list holds
\* exactly one entry per unit of that identifier whose computation raised.
\* (Stated as the claim has it; the code violates it.)
C3_OneFailurePerRaisingUnit ==
  (\A t \in Threads : wpc[t] = "idle") =>
    \A c \in Columns \cup {NoColumn} :
      LET Is(e) == e.error = ErrorIdent(c)
      IN CountIn(failures, Is)
           = Cardinality({u \in UnitIds : ComputationRaised(u) /\ units[u].column = c})

\* C4 as the claim has it: after get_all_metrics returns, a column is a key
\* of `columns` only when some unit of it did not fail.
C4_NoEntryOfFailedUnit ==
  mainPc = "returned" =>
    \A c \in DOMAIN profile_results.columns :
      \E u \in UnitIds : units[u].column = c /\ ~HandlerRaised(u)

\* C4 amended: a unit whose handler raised contributes no metric value to
\* `table`, `columns` or `system`; a column whose units all raised is left
\* with at most the `name` and `timestamp` entries.
C4_NoValueOfFailedUnit ==
  mainPc = "returned" =>
    /\ \A u \in UnitIds :
         HandlerRaised(u) => ~InTable(u) /\ ~InColumns(u) /\ ~InSystem(u)
    /\ \A c \in DOMAIN profile_results.columns :
         (\A u \in UnitIds : units[u].column = c => HandlerRaised(u)) =>
           DOMAIN profile_results.columns[c] \subseteq {"name", "timestamp"}

C4_Witness ==
  /\ mainPc = "returned"
  /\ \E u \in UnitIds :
       /\ HandlerRaised(u)
       /\ units[u].column \in DOMAIN profile_results.columns
       /\ \A v \in UnitIds : units[v].column = units[u].column => HandlerRaised(v)
  /\ \E u \in UnitIds : units[u].mtype = "Table" /\ InTable(u)


\* C5: when the wait on an unfinished future ends the loop, TimeoutError is
\* what get_all_metrics raises and every future still queued is cancelled;
\* from then on nothing is aggregated, no cancelled future runs, and
\* get_all_metrics never returns a result.
C5_TimeoutAborts ==
  [][ /\ (mainPc = "collect" /\ idx <= N /\ fut[idx] \in {"pending", "running"}
            /\ mainPc' # mainPc) =>
           /\ raisedExc' = "TimeoutError"
           /\ profile_results' = profile_results
           /\ \A u \in UnitIds : fut[u] = "pending" => fut'[u] = "cancelled"
      /\ raisedExc = "TimeoutError" =>
           /\ raisedExc' = "TimeoutError"
           /\ profile_results' = profile_results
           /\ idx' = idx
           /\ mainPc' \in {"exiting", "raised"}
           /\ \A u \in UnitIds : fut[u] = "cancelled" => fut'[u] = "cancelled"
           /\ \A u \in UnitIds : fut'[u] # "pending"
    ]_vars

C5_Witness ==
  /\ mainPc = "raised"
  /\ raisedExc = "TimeoutError"
  /\ \E u, v \in UnitIds : fut[u] = "done" /\ fut[v] = "cancelled"

SessionsUsed(u) ==
  frame[u].session \cup {s.client : s \in frame[u].sampler}
                   \cup {r.session : r \in frame[u].runner}

C7_NoSharedSession ==
  \A u \in UnitIds :
    fut[u] = "running" =>
      /\ SessionsUsed(u) = {SessionFactory(frame[u].thread)}
      /\ MainSession \notin SessionsUsed(u)
      /\ \A v \in UnitIds :
           (v # u /\ fut[v] = "running") => SessionsUsed(u) \cap SessionsUsed(v) = {}

C7_Witness ==
  \E u, v \in UnitIds :
    /\ u # v
    /\ fut[u] = "running" /\ fut[v] = "running"
    /\ frame[u].runner # {} /\ frame[v].runner # {}
    /\ frame[u].thread # frame[v].thread

\* C8: the result maps change only in a step of the caller thread that
\* consumes a finished future; no step of a worker changes them.
C8_OnlyCallerAggregates ==
  [][ profile_results' # profile_results =>
        /\ mainPc = "collect"
        /\ idx \in UnitIds
        /\ fut[idx] = "done"
        /\ idx' = idx + 1
        /\ wpc' = wpc
        /\ fut' = fut
    ]_vars

C8_Witness ==
  /\ profile_results.columns # EmptyDict
  /\ \E t \in Threads : wpc[t] = "prepared"

\* C9: a value of a unit is found in `table` only for a Table unit, in
\* `system` only for a System unit and in `columns` only for the other
\* types; and the last consumed unit of a destination has its row there:
\* a Table row in `table`, a System result as `system`, any other row in
\* columns[column] next to the column's name and a timestamp.
LaterSame(u) ==
  \E v \in UnitIds : v > u /\ Consumed(v) /\ units[v] = units[u]

C9_Routing ==
  /\ \A u \in UnitIds :
       /\ InTable(u) => units[u].mtype = "Table"
       /\ InSystem(u) => units[u].mtype = "System"
       /\ InColumns(u) => units[u].mtype \notin {"Table", "System"}
  /\ \A u \in UnitIds :
       (Consumed(u) /\ ~LaterSame(u)) =>
         CASE units[u].mtype = "Table" ->
                Succeeded(u) =>
                  \A k \in DOMAIN TheRow(u) :
                    /\ k \in DOMAIN profile_results.table
                    /\ IsValueOf(profile_results.table[k], u)
           [] units[u].mtype = "System" ->
                profile_results.system = {IF Succeeded(u) THEN frame[u].row ELSE {}}
           [] OTHER ->
                LET c == units[u].column
                IN /\ c \in DOMAIN profile_results.columns
                   /\ {"name", "timestamp"} \subseteq DOMAIN profile_results.columns[c]
                   /\ profile_results.columns[c]["name"] = NameVal(c)
                   /\ profile_results.columns[c]["timestamp"].kind = "timestamp"
                   /\ Succeeded(u) =>
                        \A k \in DOMAIN TheRow(u) :
                          /\ k \in DOMAIN profile_results.columns[c]
                          /\ IsValueOf(profile_results.columns[c][k], u)

C9_Witness ==
  /\ mainPc = "returned"
  /\ \E u, v \in UnitIds :
       /\ units[u].mtype \in {"Table", "System"}
       /\ units[v].mtype \in {"Static", "Query", "Window"}
       /\ IF units[u].mtype = "Table" THEN InTable(u) ELSE InSystem(u)
       /\ InColumns(v)

\* C10: all the units a thread runs are given the same sampler object and
\* the same runner object, the ones the thread keeps in its thread-local
\* state: each is constructed at most once per thread.
C10_OneSamplerAndRunnerPerThread ==
  \A u \in UnitIds :
    frame[u].thread # 0 =>
      /\ frame[u].sampler \subseteq thread_local[frame[u].thread].sampler
      /\ frame[u].runner \subseteq thread_local[frame[u].thread].runner
      /\ \A v \in UnitIds :
           frame[v].thread = frame[u].thread =>
             /\ (frame[u].sampler # {} /\ frame[v].sampler # {})
                  => frame[u].sampler = frame[v].sampler
             /\ (frame[u].runner # {} /\ frame[v].runner # {})
                  => frame[u].runner = frame[v].runner

C10_Witness ==
  \E u, v \in UnitIds :
    /\ u < v
    /\ frame[u].thread = frame[v].thread
    /\ Ran(u) /\ Ran(v)
    /\ frame[v].runner = frame[u].runner
    /\ frame[v].sampler = frame[u].sampler
    /\ \E r \in frame[v].runner : r.id = u


\* C11: the units one worker thread prepared all hold the same sample
\* handle: random_sample built no second one.  (Stated as the claim has
\* it; the code violates it.)
C11_SampleComputedOncePerThread ==
  \A u, v \in UnitIds :
    (frame[u].prep = "ok" /\ frame[v].prep = "ok" /\ frame[u].thread = frame[v].thread)
      => frame[u].sample = frame[v].sample

\* The first statement of unit u failed with an overflow code registered
\* for the active dialect.
RegisteredOverflow(u) ==
  /\ Ran(u)
  /\ frame[u].outcome = "overflow"
  /\ dialect \in DOMAIN OVERFLOW_ERROR_CODES
  /\ Errno(frame[u].outcome) \in OVERFLOW_ERROR_CODES[dialect]

DegradedMetrics == {"sum", "mean", "stdDev"}

\* C12: a Static unit whose statement failed with a registered overflow
\* code issues the retry statement; when the retry answers, the unit's
\* result is the retry's row, which has the unit's metrics but Sum, Mean
\* and StdDev, and no exception leaves the handler.
C12_OverflowRetriedWithoutSum ==
  \A u \in UnitIds :
    (RegisteredOverflow(u) /\ units[u].mtype = "Static") =>
      /\ frame[u].retry \in {"ok", "error"}
      /\ frame[u].retry = "ok" =>
           /\ frame[u].exc = "none"
           /\ ~frame[u].rolledBack
           /\ frame[u].row = {RowOf(u, MetricsOf("Static") \ DegradedMetrics)}
           /\ futResult[u] = {[row |-> frame[u].row, column |-> units[u].column,
                               mtype |-> "Static"]}

C12_Witness ==
  \E u \in UnitIds :
    /\ RegisteredOverflow(u)
    /\ units[u].mtype = "Static"
    /\ frame[u].retry = "ok"
    /\ Consumed(u)
    /\ InColumns(u)
    /\ failures = <<>>

\* C13: after a registered overflow on a Static unit, the returned row has
\* the keys sum, mean and stddev.  (Stated as the claim has it; the code
\* violates it: the retry's row has no such keys.)
C13_DegradedKeysPresent ==
  \A u \in UnitIds :
    (RegisteredOverflow(u) /\ units[u].mtype = "Static" /\ frame[u].retry = "ok") =>
      \A r \in frame[u].row :
        (MetricsOf("Static") \cap DegradedMetrics) \subseteq DOMAIN r

\* C14: a Window unit whose statement failed with a registered overflow
\* code returns None: no retry is issued, no exception leaves the handler,
\* no rollback is made and no failure is recorded for the unit.
C14_WindowOverflowSkipped ==
  \A u \in UnitIds :
    (RegisteredOverflow(u) /\ units[u].mtype = "Window") =>
      /\ frame[u].retry = "none"
      /\ frame[u].exc = "none"
      /\ frame[u].row = {}
      /\ ~frame[u].rolledBack
      /\ futResult[u] = {[row |-> {}, column |-> units[u].column, mtype |-> "Window"]}
      /\ Len(failures) = Cardinality({v \in UnitIds : HandlerRaised(v)})
      /\ ~HandlerRaised(u)

C14_Witness ==
  \E u \in UnitIds :
    /\ RegisteredOverflow(u)
    /\ units[u].mtype = "Window"
    /\ failures = <<>>
    /\ mainPc = "returned"

\* C15: a worker's session is open only while the worker runs a unit, so it
\* is closed when the unit ended with a row, a failure or an exception of
\* the preparation; and when get_all_metrics has returned or raised, the
\* pool is shut down: no worker runs and no future is queued or running.
C15_ResourcesReleased ==
  /\ \A t \in Threads : sessOpen[t] => (wpc[t] = "prepared" /\ fut[wunit[t]] = "running")
  /\ \A u \in UnitIds :
       fut[u] \in {"done", "error"} =>
         \A s \in frame[u].session :
           sessOpen[s] => \E t \in Threads : wpc[t] = "prepared" /\ frame[wunit[t]].session = {s}
  /\ mainPc \in {"returned", "raised"} =>
       /\ \A t \in Threads : wpc[t] = "idle" /\ ~sessOpen[t]
       /\ \A u \in UnitIds : fut[u] \in {"done", "error", "cancelled"}

C15_Witness ==
  /\ mainPc = "raised"
  /\ \E u, v \in UnitIds : fut[u] = "error" /\ fut[v] = "done" /\ HandlerRaised(v)
  /\ \A t \in Threads : ~sessOpen[t]

\* C16: the scanned records hold, for every identifier, one entry per unit
\* of it that was processed without a failure, and none for a unit whose
\* failure was recorded.  (Stated as the claim has it; the code violates it.)
C16_ScannedOnlyOnSuccess ==
  (\A t \in Threads : wpc[t] = "idle") =>
    \A c \in Columns \cup {NoColumn} :
      LET Is(e) == e = ErrorIdent(c)
      IN CountIn(records, Is)
           = Cardinality({u \in UnitIds : Ran(u) /\ ~HandlerRaised(u) /\ units[u].column = c})


\* C17 (as claimed): in row-count mode with N at most the table's row
\* count, the handle random_sample returned selects exactly N rows.
C17_ExactlyNRows ==
  \A c \in profile_sample_config, h \in sampled :
    (c.profile_sample_type = "ROWS" /\ c.profile_sample <= Cardinality(table_rows))
      => Cardinality(h.rows) = c.profile_sample

\* C17 (amended): in row-count mode without a user query or a partition,
\* with N at least 1 and at most the table's row count, the handle selects
\* exactly N rows of the table.
C17_ExactlyNRowsOfTable ==
  \A c \in profile_sample_config, h \in sampled :
    (/\ c.profile_sample_type = "ROWS"
     /\ profile_query = {}
     /\ partition_details = {}
     /\ 1 <= c.profile_sample
     /\ c.profile_sample <= Cardinality(table_rows))
      => /\ h.kind = "sampled"
         /\ Cardinality(h.rows) = c.profile_sample
         /\ h.rows \subseteq table_rows

C17_Witness ==
  \E c \in profile_sample_config, h \in sampled :
    /\ c.profile_sample_type = "ROWS"
    /\ profile_query = {}
    /\ partition_details = {}
    /\ c.profile_sample = 1
    /\ Cardinality(table_rows) = MaxRows
    /\ Cardinality(h.rows) = 1

\* C18 (as claimed): with a partition configured, every row of the handle
\* random_sample returned is a row of the table that satisfies the
\* partition filter.
C18_SampleWithinPartition ==
  \A d \in partition_details, h \in sampled :
    \A r \in h.rows : r \in table_rows /\ PartitionFilter(d, r)

\* C18 (amended): with a partition configured and no user query, every row
\* of the handle random_sample returned is a row of the table that
\* satisfies the partition filter, with or without a sample size.
C18_SampleWithinPartitionNoQuery ==
  \A d \in partition_details, h \in sampled :
    profile_query = {} =>
      \A r \in h.rows : r \in table_rows /\ PartitionFilter(d, r)

C18_Witness ==
  \E d \in partition_details, h \in sampled, r, q \in table_rows :
    /\ profile_query = {}
    /\ h.kind = "sampled"
    /\ PartitionFilter(d, r)
    /\ ~PartitionFilter(d, q)
    /\ h.rows = {r}

\* C19 (as claimed): in percentage mode with p in (0,100], without user
\* query or partition, every row of the table has a label in 0..99 and is
\* in the sample exactly when its label is at most p; the sample is a
\* subset of the table, and the whole table at p = 100.
C19_LabelFilterDecides ==
  \A c \in profile_sample_config, h \in sampled :
    (/\ c.profile_sample_type = "PERCENTAGE"
     /\ c.profile_sample \in 1..100
     /\ profile_query = {}
     /\ partition_details = {})
      => /\ DOMAIN rnd = table_rows
         /\ \A r \in table_rows :
              /\ rnd[r] \in 0..99
              /\ r \in h.rows <=> rnd[r] <= c.profile_sample
         /\ h.rows \subseteq table_rows
         /\ c.profile_sample = 100 => h.rows = table_rows

\* C20 (as claimed): on Snowflake a percentage sample is the rows the
\* native SAMPLE BERNOULLI construct read: no label filter drops a row
\* after it.
C20_NativeSamplingOnly ==
  \A c \in profile_sample_config, h \in sampled :
    (/\ dialect = "snowflake"
     /\ c.profile_sample_type = "PERCENTAGE"
     /\ c.profile_sample \in 1..100
     /\ profile_query = {})
      => h.rows = DOMAIN rnd


\* C21: with a user query configured, the handle random_sample returned
\* selects the rows of the query, whatever the sample configuration and
\* the partition are, and it executed no statement of its own; the
\* TableData of fetch_sample_data holds rows of the query only, all of
\* them up to 100 and never more than 100.
C21_UserQueryBypassesSampling ==
  \A q \in profile_query :
    /\ \A h \in sampled : h.kind = "user_query" /\ h.rows = q /\ h.queries = 0
    /\ \A td \in sample_data :
         /\ td \subseteq q
         /\ Cardinality(td) <= 100
         /\ Cardinality(q) <= 100 => td = q
         /\ Cardinality(q) > 100 => Cardinality(td) = 100

C21_Witness ==
  \E q \in profile_query, h \in sampled, td \in sample_data, c \in profile_sample_config :
    /\ partition_details # {}
    /\ c.profile_sample = 1
    /\ Cardinality(table_rows) = MaxRows
    /\ Cardinality(q) = 101
    /\ Cardinality(td) = 100
    /\ h.rows = q

\* C22: with no sample configuration, no partition and no user query, the
\* handle random_sample returned is the table itself, with all its rows,
\* and the call executed no statement.
C22_TableUnchanged ==
  (profile_sample_config = {} /\ partition_details = {} /\ profile_query = {}) =>
    \A h \in sampled :
      h.kind = "table" /\ h.rows = table_rows /\ h.queries = 0 /\ rnd = NoRnd

C22_Witness ==
  /\ profile_sample_config = {}
  /\ partition_details = {}
  /\ profile_query = {}
  /\ Cardinality(table_rows) = MaxRows
  /\ \E h \in sampled : h.rows = table_rows


\* C23: fn() of Mean, Sum and StdDev is None for a column type that is
\* neither quantifiable nor concatenable, fn() of Min is None for a type
\* that is none of concatenable, quantifiable and date-time, and fn()
\* raises for no type; for a supported type it is an expression labelled
\* with the metric's name.
C23_UnsupportedTypeGivesNone ==
  metric_out.op = "fn" =>
    \A m \in DOMAIN metric_out.fns :
      LET type == metric_in.type
          supported == IF m = "min"
                       THEN is_concatenable(type) \/ is_quantifiable(type) \/ is_date_time(type)
                       ELSE is_quantifiable(type) \/ is_concatenable(type)
      IN /\ ~metric_out.fns[m].raises
         /\ ~supported => metric_out.fns[m].expr = {}
         /\ supported => \E e \in metric_out.fns[m].expr : e.label = m

C23_Witness ==
  /\ metric_out.op = "fn"
  /\ metric_in.type = {"date_time"}
  /\ DOMAIN metric_out.fns = FnMetrics
  /\ metric_out.fns["mean"].expr = {}
  /\ metric_out.fns["min"].expr # {}

\* C24 (as claimed): the statement of a Static unit holds no metric whose
\* fn() is None, and no statement is issued when fn() is None for all the
\* unit's metrics.  (The code violates it.)
C24_InapplicableNeverQueried ==
  metric_out.op = "static" =>
    /\ \A st \in metric_out.statement : \A m \in DOMAIN st : st[m] # {}
    /\ (\A m \in metric_in.metrics \cap FnMetrics : Fn(m, metric_in.type).expr = {})
         => metric_out.statement = {}

\* Whether a compiled expression casts its argument to a wider type.
Widened(sql) == \E i \in DOMAIN sql : sql[i] = "cast"

\* C25 (as claimed): on MSSQL the SQL of avg and the SQL of stddev both
\* cast the column to a wider type.  (The code violates it.)
C25_AvgAndStdDevWidened ==
  (metric_out.op = "compile" /\ metric_in.dialect = "mssql") =>
    \A m \in DOMAIN metric_out.sql \cap {"mean", "stddev"} : Widened(metric_out.sql[m])


\* C26: a unit whose preparation raised is no per-unit failure: the
\* exception is held by its future, the unit appended nothing to failures
\* or to the scanned records (these hold one entry per raising handler and
\* one per unit that reached the dispatch), nothing of it is aggregated,
\* get_all_metrics never returns a ProfileResult, and when the caller waits
\* on that future the exception is the one get_all_metrics raises.
C26_PreparationErrorEscapes ==
  /\ Len(failures) = Cardinality({v \in UnitIds : HandlerRaised(v)})
  /\ Len(records) = Cardinality({v \in UnitIds : Ran(v)})
  /\ \A u \in UnitIds :
       PrepRaised(u) =>
         /\ fut[u] = "error"
         /\ futResult[u] = {}
         /\ frame[u].exc = "none" /\ frame[u].row = {}
         /\ ~InTable(u) /\ ~InColumns(u) /\ ~InSystem(u)
         /\ mainPc # "returned"
         /\ (idx = u /\ mainPc \in {"exiting", "raised"}) => raisedExc = "WorkerError"

C26_Witness ==
  \E u, v \in UnitIds :
    /\ u < v
    /\ Consumed(u)
    /\ PrepRaised(v)
    /\ frame[v].prep = "sample_error"
    /\ mainPc = "raised"
    /\ raisedExc = "WorkerError"
    /\ Len(records) = 1
    /\ failures = <<>>


\* The statement of unit u failed with a ProgrammingError whose code is not
\* a registered overflow code of the dialect.
NonOverflowProgrammingError(u) ==
  /\ Ran(u)
  /\ IsProgrammingError(frame[u].outcome)
  /\ ~RegisteredOverflow(u)

\* C27 (as claimed): a Static or Window unit whose statement failed with a
\* ProgrammingError that is no registered overflow code rolled the session
\* back, ended with RuntimeError and has its failure recorded.  (The code
\* violates it.)
C27_ProgrammingErrorLikeAnyOther ==
  \A u \in UnitIds :
    (NonOverflowProgrammingError(u) /\ units[u].mtype \in {"Static", "Window"}) =>
      /\ frame[u].rolledBack
      /\ frame[u].exc = "RuntimeError"
      /\ \E i \in DOMAIN failures : failures[i].error = ErrorIdent(units[u].column)


\* C28 (as claimed): the runner a unit is executed with holds the unit's
\* table and the sample handle random_sample returned for that unit.
\* (The code violates it.)
C28_RunnerBoundToUnitSample ==
  \A u \in UnitIds :
    frame[u].prep = "ok" =>
      \A rn \in frame[u].runner :
        rn.table = TableName /\ rn.sample \in frame[u].sample

\* The units that wrote key k of the table map, or of column c's map.
WritersOfTable(k) ==
  {u \in UnitIds : Succeeded(u) /\ units[u].mtype = "Table" /\ k \in DOMAIN TheRow(u)}
WritersOfColumn(c, k) ==
  {u \in UnitIds : /\ Succeeded(u)
                   /\ units[u].mtype \notin {"Table", "System"}
                   /\ units[u].column = c
                   /\ k \in DOMAIN TheRow(u)}
Last(S) == CHOOSE u \in S : \A v \in S : v <= u

\* C29: when get_all_metrics has returned, every key of `table` and of a
\* column's map holds the value of the last unit in submission order that
\* wrote it, and `system` the result of the last System unit, whichever
\* threads ran the units and in whichever order they finished.
C29_SubmissionOrderDecides ==
  mainPc = "returned" =>
    /\ \A k \in DOMAIN profile_results.table :
         /\ WritersOfTable(k) # {}
         /\ IsValueOf(profile_results.table[k], Last(WritersOfTable(k)))
    /\ \A k \in MetricsOf("Table") :
         WritersOfTable(k) # {} => k \in DOMAIN profile_results.table
    /\ \A c \in DOMAIN profile_results.columns :
         LET ofc == {u \in UnitIds : units[u].mtype \notin {"Table", "System"}
                                      /\ units[u].column = c}
         IN /\ ofc # {}
            /\ profile_results.columns[c]["timestamp"] = TimeVal(Last(ofc))
            /\ \A k \in DOMAIN profile_results.columns[c] \ {"name", "timestamp"} :
                 /\ WritersOfColumn(c, k) # {}
                 /\ IsValueOf(profile_results.columns[c][k], Last(WritersOfColumn(c, k)))
    /\ \A u \in UnitIds :
         (Succeeded(u) /\ units[u].mtype \notin {"Table", "System"}) =>
           \A k \in DOMAIN TheRow(u) :
             /\ units[u].column \in DOMAIN profile_results.columns
             /\ k \in DOMAIN profile_results.columns[units[u].column]
    /\ LET sys == {u \in UnitIds : units[u].mtype = "System"}
       IN IF sys = {} THEN profile_results.system = {}
          ELSE profile_results.system = {frame[Last(sys)].row}

C29_Witness ==
  /\ mainPc = "returned"
  /\ \E u, v \in UnitIds :
       /\ u < v
       /\ units[u] = units[v]
       /\ units[u].mtype = "Static"
       /\ Succeeded(u) /\ Succeeded(v)
       /\ frame[u].thread # frame[v].thread
       /\ frame[u].outcome = "ok"
       /\ frame[v].outcome = "overflow"
       /\ profile_results.columns[units[u].column]["sum"] = MetricVal(u)
       /\ profile_results.columns[units[u].column]["min"] = MetricVal(v)


\* C30 (as claimed): a dict-typed Query metric returns
\* {metric_name: {column: [values]}} with one list entry per result row for
\* every result set, the empty one included, without raising or recording a
\* failure.  (The code violates it.)
C30_DictMetricForEveryResultSet ==
  \A u \in UnitIds :
    (Ran(u) /\ units[u].mtype = "Query"
       /\ frame[u].outcome \in {"dict_rows", "dict_empty"}) =>
      /\ frame[u].exc = "none"
      /\ ~frame[u].rolledBack
      /\ frame[u].row # {}
      /\ \A k \in DOMAIN TheRow(u) :
           /\ TheRow(u)[k].kind = "dict"
           /\ \A col \in DOMAIN TheRow(u)[k].data :
                Len(TheRow(u)[k].data[col]) = Len(ResultsOf(frame[u].outcome))

====
